---- MODULE Spec2Model ----
(***************************************************************************)
(* The liteci compile pipeline (cmd/liteci generatePlan): load, normalize, *)
(* validate, expand, plan/bind, cycle detection, topological sort, render  *)
(* and write.  Every stage is one action; the intermediate representations *)
(* are the variables.  Go map iteration order is a nondeterministic choice *)
(* wherever the code ranges over a map and the order can reach a result.   *)
(***************************************************************************)
EXTENDS Integers, Sequences, FiniteSets, TLC

VARIABLES
    file,          \* the intent document on disk (never changes)
    registry,      \* composition registry: type -> CompositionInfo
    environmentFlag, \* the global `environment` bound to the plan flag --env
    loader,        \* a call of LoadCompositionsFromDir: its directory and result
    runner,        \* a call of Runner.Run: the plan, the mode and the progress
    resolver,      \* a call of DependencyResolver.ResolveComponentSet
    pc,            \* position of generatePlan
    err,           \* the error generatePlan returned, "" when none
    intent,        \* the raw *model.Intent held in memory
    normalized,    \* *model.NormalizedIntent
    instances,     \* map env -> []*ComponentInstance
    jobInstances,  \* map jobID -> *JobInstance
    sorted,        \* result of TopologicalSort
    plan,          \* *model.Plan built by RenderPlan
    written,       \* the plan this run wrote to the output file
    previous,      \* the plan the previous run wrote
    runs           \* number of compile runs started

vars == <<loader, runner, resolver, file, registry, environmentFlag, pc, err, intent, normalized, instances,
          jobInstances, sorted, plan, written, previous, runs>>

\* Placeholder of a value that does not exist yet (a nil pointer, no file).
None == [none |-> TRUE]

(***************************************************************************)
(* Bounds of the explored inputs.                                          *)
(***************************************************************************)
MaxDeps == 1
MaxRuns == 2
MaxEdges == 2

(***************************************************************************)
(* Strings.                                                                *)
(***************************************************************************)
CharAt(s, i) == SubSeq(s, i, i)

Drop(s, n) == SubSeq(s, n + 1, Len(s))

HasPrefix(s, p) == Len(s) >= Len(p) /\ SubSeq(s, 1, Len(p)) = p

\* The rank of a character among those of the names used here, in byte order.
Byte(c) ==
    LET ByteOrder == "\n -./0123456789@_abcdefghijklmnopqrstuvwxyz{}"
    IN CHOOSE i \in 1..Len(ByteOrder) : CharAt(ByteOrder, i) = c

RECURSIVE StrLess(_, _)
\* Go's < on strings: bytewise lexicographic.
StrLess(a, b) ==
    IF Len(b) = 0 THEN FALSE
    ELSE IF Len(a) = 0 THEN TRUE
    ELSE IF CharAt(a, 1) = CharAt(b, 1) THEN StrLess(Drop(a, 1), Drop(b, 1))
    ELSE Byte(CharAt(a, 1)) < Byte(CharAt(b, 1))

RECURSIVE ReplaceAll(_, _, _)
\* strings.ReplaceAll for a non-empty old: leftmost, non-overlapping.
ReplaceAll(s, old, new) ==
    IF Len(s) < Len(old) THEN s
    ELSE IF HasPrefix(s, old) THEN new \o ReplaceAll(Drop(s, Len(old)), old, new)
    ELSE CharAt(s, 1) \o ReplaceAll(Drop(s, 1), old, new)

\* Positions j > i + 1 where a "}}" closes a "{{" opened at i, with no
\* newline in between ('.' does not match "\n").
Closers(s, i) ==
    { j \in (i + 2)..(Len(s) - 1) :
        /\ SubSeq(s, j, j + 1) = "}}"
        /\ \A k \in (i + 2)..(j - 1) : CharAt(s, k) # "\n" }

Min(S) == CHOOSE x \in S : \A y \in S : x <= y

RECURSIVE RemoveTemplates(_)
\* regexp.MustCompile(`{{.*?}}`).ReplaceAllString(s, ""): leftmost match,
\* shortest body, matches do not overlap.
RemoveTemplates(s) ==
    IF Len(s) < 4 THEN s
    ELSE IF HasPrefix(s, "{{") /\ Closers(s, 1) # {}
         THEN RemoveTemplates(Drop(s, Min(Closers(s, 1)) + 1))
         ELSE CharAt(s, 1) \o RemoveTemplates(Drop(s, 1))

IsSpace(c) == c \in {" ", "\n", "\t", "\r"}

RECURSIVE TrimLeft(_)
TrimLeft(s) ==
    IF Len(s) > 0 /\ IsSpace(CharAt(s, 1)) THEN TrimLeft(Drop(s, 1)) ELSE s

RECURSIVE TrimRight(_)
TrimRight(s) ==
    IF Len(s) > 0 /\ IsSpace(CharAt(s, Len(s)))
    THEN TrimRight(SubSeq(s, 1, Len(s) - 1)) ELSE s

TrimSpace(s) == TrimRight(TrimLeft(s))

(***************************************************************************)
(* Values and maps.  A map[string]interface{} is a function on its keys;   *)
(* an interface{} value is a string or a number.                           *)
(***************************************************************************)
StrVal(s) == [kind |-> "string", str |-> s, num |-> 0]

NumVal(n) == [kind |-> "number", str |-> "", num |-> n]

EmptyMap == <<>>

\* for k, v := range over { into[k] = v }
Overlay(into, over) ==
    [k \in (DOMAIN into) \cup (DOMAIN over) |->
        IF k \in DOMAIN over THEN over[k] ELSE into[k]]

\* delete(m, key)
Delete(m, key) == [k \in (DOMAIN m) \ {key} |-> m[k]]

Range(f) == {f[x] : x \in DOMAIN f}

\* Every order in which a range loop can visit the keys S of a map.
Orders(S) ==
    {o \in [1..Cardinality(S) -> S] : \A i, j \in DOMAIN o : i # j => o[i] # o[j]}

Contains(slice, item) == \E i \in DOMAIN slice : slice[i] = item

(***************************************************************************)
(* The inputs: an intent document and a composition registry.              *)
(***************************************************************************)
CompNames == {"db", "web"}

EnvNames == {"dev", "prod"}

DepEnvs == {"", "prod"}

Dependency(c, e) == [component |-> c, environment |-> e, scope |-> "", condition |-> ""]

Edges == {Dependency(c, e) : c \in CompNames, e \in DepEnvs}

SeqsUpTo(S, n) == UNION {[1..k -> S] : k \in 0..n}

Component(n, t, dom, en, p, in, deps) ==
    [name |-> n, type |-> t, domain |-> dom, enabled |-> en, path |-> p,
     inputs |-> in, dependsOn |-> deps]

\* Components of the dependency-graph inputs: no configuration, any edges.
\* The components the inputs also declare with enabled: false.
Disableable == {"web"}

PlainComponents ==
    {c \in {Component(n, "helm", "", en, "", EmptyMap, deps) :
                n \in CompNames, en \in BOOLEAN, deps \in SeqsUpTo(Edges, MaxDeps)} :
        c.enabled \/ c.name \in Disableable}

DistinctNames(cs) == \A i, j \in DOMAIN cs : i # j => cs[i].name # cs[j].name

Declarations ==
    {cs \in UNION {[1..k -> PlainComponents] : k \in 1..Cardinality(CompNames)} :
        DistinctNames(cs)}

Environment(sel, defaults, policies) ==
    [selectors |-> sel, defaults |-> defaults, policies |-> policies]

SelectorLists ==
    {<<>>, <<"*">>} \cup {<<a>> : a \in CompNames}
        \cup {p \in CompNames \X CompNames : p[1] # p[2]}

\* The selector lists tried for each environment.
Selectors == [dev |-> {<<>>, <<"*">>}, prod |-> SelectorLists]

Intent(comps, envs, groups) ==
    [metadata |-> [name |-> "demo", description |-> ""],
     components |-> comps, environments |-> envs, groups |-> groups]

GraphIntents ==
    {Intent(cs, [e \in EnvNames |-> Environment(sel[e], EmptyMap, EmptyMap)], EmptyMap) :
        cs \in Declarations,
        sel \in {f \in [EnvNames -> SelectorLists] : \A e \in EnvNames : f[e] \in Selectors[e]}}

JobSpec(n) == [name |-> n, steps |-> <<>>]

\* compositionInfos built by generatePlan: the first job of a type is its default.
DefaultRegistry ==
    [t \in {"helm"} |-> [type |-> t, defaultJob |-> JobSpec("deploy"), required |-> {}]]

StartWith(f, reg, flag) ==
    /\ file = f
    /\ registry = reg
    /\ environmentFlag = flag
    /\ loader = None
    /\ runner = None
    /\ resolver = None
    /\ pc = "load"
    /\ err = ""
    /\ intent = None
    /\ normalized = None
    /\ instances = None
    /\ jobInstances = None
    /\ sorted = None
    /\ plan = None
    /\ written = None
    /\ previous = None
    /\ runs = 1

Start(f, reg) == StartWith(f, reg, "")

Init == \E f \in GraphIntents : Start(f, DefaultRegistry)

Fail(kind) == pc' = "failed" /\ err' = kind

(***************************************************************************)
(* Stage 1: load.                                                          *)
(***************************************************************************)
\* A path that os.ReadFile or yaml.Unmarshal fails on.
Unreadable == None

LoadIntent ==
    /\ pc = "load"
    /\ IF file = Unreadable
       THEN Fail("ReadError") /\ UNCHANGED intent
       ELSE intent' = file /\ pc' = "normalize" /\ err' = ""
    /\ UNCHANGED <<loader, runner, resolver, file, registry, environmentFlag, normalized, instances, jobInstances,
                   sorted, plan, written, previous, runs>>

(***************************************************************************)
(* Stage 2: normalize.                                                     *)
(***************************************************************************)
\* NormalizeDependency with an empty environment defaulted to a fixed one.
NormalizeDependencyFixedEnv(dep) ==
    [component |-> dep.component,
     environment |-> IF dep.environment = "" THEN "prod" ELSE dep.environment,
     scope |-> IF dep.scope = "" THEN "same-environment" ELSE dep.scope,
     condition |-> IF dep.condition = "" THEN "success" ELSE dep.condition]

NormalizeDependency(dep) ==
    [component |-> dep.component,
     environment |-> IF dep.environment = "" THEN "__same__" ELSE dep.environment,
     scope |-> IF dep.scope = "" THEN "same-environment" ELSE dep.scope,
     condition |-> IF dep.condition = "" THEN "success" ELSE dep.condition]

NormalizeDependencies(deps) == [i \in DOMAIN deps |-> NormalizeDependency(deps[i])]

\* if !comp.Enabled && comp.Enabled != true { comp.Enabled = true }
EnabledDefault(enabled) == IF ~enabled /\ enabled # TRUE THEN TRUE ELSE enabled

NormalizeComponent(comp) ==
    [comp EXCEPT !.enabled = EnabledDefault(@),
                 !.dependsOn = NormalizeDependencies(@)]

\* Indices of the components the first loop rejects.
Rejected(comps) == {i \in DOMAIN comps : comps[i].name = "" \/ comps[i].type = ""}

\* normalized.Components[comp.Name] = comp, in declaration order: the last
\* declaration of a name wins.
ComponentMap(comps) ==
    [n \in {comps[i].name : i \in DOMAIN comps} |->
        LET last == CHOOSE i \in DOMAIN comps :
                        /\ comps[i].name = n
                        /\ \A j \in DOMAIN comps : comps[j].name = n => j <= i
        IN NormalizeComponent(comps[last])]

\* The raw components after the loop has handled the first n of them: the
\* dependency defaults are written through the slice the copy shares.
RawAfter(comps, n) ==
    [i \in DOMAIN comps |->
        IF i <= n THEN [comps[i] EXCEPT !.dependsOn = NormalizeDependencies(@)]
        ELSE comps[i]]

\* env.Selectors.Components after the wildcard step, the index ranged in `order`.
ExpandWildcard(selectors, order) ==
    IF Contains(selectors, "*") THEN order ELSE selectors

NormalizeIntent ==
    /\ pc = "normalize"
    /\ IF intent = None
       THEN /\ Fail("NormalizeError")
            /\ UNCHANGED <<intent, normalized>>
       ELSE IF Rejected(intent.components) # {}
       THEN /\ Fail("NormalizeError")
            /\ intent' = [intent EXCEPT !.components =
                              RawAfter(@, Min(Rejected(intent.components)) - 1)]
            /\ UNCHANGED normalized
       ELSE LET index == ComponentMap(intent.components)
                wild == {e \in DOMAIN intent.environments :
                            Contains(intent.environments[e].selectors, "*")}
            IN \E order \in [wild -> Orders(DOMAIN index)] :
                 LET envs == [e \in DOMAIN intent.environments |->
                                 IF e \in wild
                                 THEN [intent.environments[e] EXCEPT !.selectors =
                                          ExpandWildcard(@, order[e])]
                                 ELSE intent.environments[e]]
                 IN /\ normalized' = [metadata |-> intent.metadata,
                                      groups |-> intent.groups,
                                      environments |-> envs,
                                      components |-> index,
                                      componentIndex |-> index]
                    \* normalized.Environments is the raw intent's own map
                    /\ intent' = [intent EXCEPT
                                     !.components = RawAfter(@, Len(intent.components)),
                                     !.environments = envs]
                    /\ pc' = "validate"
                    /\ err' = ""
    /\ UNCHANGED <<loader, runner, resolver, file, registry, environmentFlag, instances, jobInstances, sorted, plan,
                   written, previous, runs>>

(***************************************************************************)
(* Stage 3: validate.                                                      *)
(***************************************************************************)
\* ValidateComponentAgainstComposition without the lookup of the type.
ValidateSchemaOnly(component) ==
    IF component.type \in DOMAIN registry
          /\ ~(registry[component.type].required \subseteq DOMAIN component.inputs)
    THEN "SchemaValidationError"
    ELSE ""

\* nil when the component passes, else the error.
ValidateComponentAgainstComposition(component) ==
    IF component.type \notin DOMAIN registry THEN "UnknownTypeError"
    ELSE IF ~(registry[component.type].required \subseteq DOMAIN component.inputs)
         THEN "SchemaValidationError"
         ELSE ""

\* ValidateAllComponents whose error is reported while the pipeline goes on.
ValidateAllComponentsReportOnly ==
    /\ pc = "validate"
    /\ LET failing == {n \in DOMAIN normalized.components :
                          ValidateComponentAgainstComposition(normalized.components[n]) # ""}
       IN IF failing = {}
          THEN err' = ""
          ELSE \E n \in failing :
                  err' = ValidateComponentAgainstComposition(normalized.components[n])
    /\ pc' = "expand"
    /\ UNCHANGED <<loader, runner, resolver, file, registry, environmentFlag, intent, normalized, instances,
                   jobInstances, sorted, plan, written, previous, runs>>

ValidateAllComponents ==
    /\ pc = "validate"
    /\ LET failing == {n \in DOMAIN normalized.components :
                          ValidateComponentAgainstComposition(normalized.components[n]) # ""}
       IN IF failing = {}
          THEN pc' = "expand" /\ err' = ""
          ELSE \E n \in failing :
                  Fail(ValidateComponentAgainstComposition(normalized.components[n]))
    /\ UNCHANGED <<loader, runner, resolver, file, registry, environmentFlag, intent, normalized, instances, jobInstances,
                   sorted, plan, written, previous, runs>>

(***************************************************************************)
(* Stage 4: expand.                                                        *)
(***************************************************************************)
interpolateString(s, envName, groupName, compName) ==
    LET r1 == ReplaceAll(s, "{{.environment}}", envName)
        r2 == ReplaceAll(r1, "{{ .environment }}", envName)
        r3 == ReplaceAll(r2, "{{.group}}", groupName)
        r4 == ReplaceAll(r3, "{{ .group }}", groupName)
        r5 == ReplaceAll(r4, "{{.component}}", compName)
        r6 == ReplaceAll(r5, "{{ .component }}", compName)
    IN TrimSpace(RemoveTemplates(r6))

interpolateProperties(props, envName, groupName, compName) ==
    [k \in DOMAIN props |->
        IF props[k].kind = "string"
        THEN StrVal(interpolateString(props[k].str, envName, groupName, compName))
        ELSE props[k]]

\* The string under "path" in a defaults map, "" when absent or no string.
DefaultsPath(defaults) ==
    IF "path" \in DOMAIN defaults /\ defaults["path"].kind = "string"
    THEN defaults["path"].str ELSE ""

\* The group defaults that apply to a component, empty when it has none.
GroupDefaults(groups, comp) ==
    IF comp.domain # "" /\ comp.domain \in DOMAIN groups
    THEN groups[comp.domain].defaults ELSE EmptyMap

\* mergeProperties with the environment defaults laid over the group defaults.
mergePropertiesEnvOverGroup(groups, comp, env, envName, compName) ==
    LET m1 == Delete(GroupDefaults(groups, comp), "path")
        m2 == Overlay(m1, Delete(env.defaults, "path"))
        m3 == Overlay(m2, comp.inputs)
    IN interpolateProperties(m3, envName, comp.domain, compName)

mergeProperties(groups, comp, env, envName, compName) ==
    LET envPath == DefaultsPath(env.defaults)
        groupPath == DefaultsPath(GroupDefaults(groups, comp))
        m1 == Delete(env.defaults, "path")
        m2 == Overlay(m1, Delete(GroupDefaults(groups, comp), "path"))
        m3 == Overlay(m2, comp.inputs)
        m4 == IF comp.path # "" THEN Overlay(m3, [k \in {"path"} |-> StrVal(comp.path)])
              ELSE IF groupPath # "" THEN Overlay(m3, [k \in {"path"} |-> StrVal(groupPath)])
              ELSE IF envPath # "" THEN Overlay(m3, [k \in {"path"} |-> StrVal(envPath)])
              ELSE m3
    IN interpolateProperties(m4, envName, comp.domain, compName)

\* resolvePolicies with the group's value kept on a shared key.
resolvePoliciesGroupWins(groups, envs, comp, envName) ==
    LET g == IF comp.domain # "" /\ comp.domain \in DOMAIN groups
             THEN groups[comp.domain].policies ELSE EmptyMap
        e == IF envName \in DOMAIN envs THEN envs[envName].policies ELSE EmptyMap
    IN Overlay(e, g)

resolvePolicies(groups, envs, comp, envName) ==
    LET g == IF comp.domain # "" /\ comp.domain \in DOMAIN groups
             THEN groups[comp.domain].policies ELSE EmptyMap
        e == IF envName \in DOMAIN envs THEN envs[envName].policies ELSE EmptyMap
    IN Overlay(g, e)

expandDependencies(comp, envName) ==
    [i \in DOMAIN comp.dependsOn |->
        [componentName |-> comp.dependsOn[i].component,
         environment |-> IF comp.dependsOn[i].environment = "__same__"
                         THEN envName ELSE comp.dependsOn[i].environment,
         scope |-> comp.dependsOn[i].scope,
         condition |-> comp.dependsOn[i].condition]]

\* One ComponentInstance, as the body of Expand's inner loop builds it.
Instance(n, envName) ==
    LET comp == n.componentIndex[envName[2]]
        env == n.environments[envName[1]]
        merged == mergeProperties(n.groups, comp, env, envName[1], envName[2])
        stringPath == "path" \in DOMAIN merged /\ merged["path"].kind = "string"
    IN [componentName |-> envName[2],
        environment |-> envName[1],
        type |-> comp.type,
        domain |-> comp.domain,
        enabled |-> comp.enabled,
        inputs |-> IF stringPath THEN Delete(merged, "path") ELSE merged,
        path |-> IF "path" \in DOMAIN merged
                 THEN (IF stringPath THEN merged["path"].str ELSE "")
                 ELSE "./",
        policies |-> resolvePolicies(n.groups, n.environments, comp, envName[1]),
        dependsOn |-> expandDependencies(comp, envName[1])]

\* Does Expand's inner loop build an instance for this selector entry?
Kept(n, compName) ==
    compName \in DOMAIN n.componentIndex /\ n.componentIndex[compName].enabled

RECURSIVE Applicable(_, _)
\* The selector entries that get an instance, in selector order.
Applicable(n, selectors) ==
    IF selectors = <<>> THEN <<>>
    ELSE IF Kept(n, Head(selectors))
         THEN <<Head(selectors)>> \o Applicable(n, Tail(selectors))
         ELSE Applicable(n, Tail(selectors))

ExpandEnvironment(n, envName) ==
    LET names == Applicable(n, n.environments[envName].selectors)
    IN [i \in DOMAIN names |-> Instance(n, <<envName, names[i]>>)]

Expand ==
    /\ pc = "expand"
    /\ instances' = [e \in DOMAIN normalized.environments |->
                        ExpandEnvironment(normalized, e)]
    /\ pc' = "plan"
    /\ UNCHANGED <<loader, runner, resolver, file, registry, environmentFlag, err, intent, normalized, jobInstances,
                   sorted, plan, written, previous, runs>>

(***************************************************************************)
(* Stage 5: plan and bind.                                                 *)
(***************************************************************************)
\* fmt.Sprintf("%s@%s.%s", component, environment, jobName)
JobID(component, environment, jobName) ==
    component \o "@" \o environment \o "." \o jobName

\* fmt.Sprintf("%s@%s", component, environment)
CompKey(component, environment) == component \o "@" \o environment

RECURSIVE Flatten(_, _)
\* The instances of all environments, the map ranged in `order`.
Flatten(insts, order) ==
    IF order = <<>> THEN <<>>
    ELSE insts[Head(order)] \o Flatten(insts, Tail(order))

JobInstance(compInst, jobDef, renderedSteps) ==
    [id |-> JobID(compInst.componentName, compInst.environment, jobDef.name),
     name |-> jobDef.name,
     component |-> compInst.componentName,
     environment |-> compInst.environment,
     composition |-> compInst.type,
     path |-> compInst.path,
     config |-> compInst.inputs,
     steps |-> renderedSteps,
     dependsOn |-> <<>>]

\* The text a template prints for a context value.
ValueText(v) == IF v.kind = "string" THEN v.str ELSE ToString(v.num)

\* The context renderSteps builds: the three names, then the inputs over them.
TemplateContext(compInst) ==
    Overlay([Component |-> StrVal(compInst.componentName),
             Environment |-> StrVal(compInst.environment),
             Type |-> StrVal(compInst.type)],
            compInst.inputs)

\* template.Parse keeps the text: a parsed template is named by its source.
ParseTemplate(text) == text

\* tmpl.Execute for templates whose actions are the fields .Component,
\* .Environment and .Type of the context.
ExecuteTemplate(tmpl, context) ==
    LET r1 == ReplaceAll(tmpl, "{{.Component}}", ValueText(context["Component"]))
        r2 == ReplaceAll(r1, "{{.Environment}}", ValueText(context["Environment"]))
    IN ReplaceAll(r2, "{{.Type}}", ValueText(context["Type"]))

RenderedStep(step, run) == [name |-> step.name, run |-> run, onFailure |-> step.onFailure]

RECURSIVE RenderLoop(_, _, _, _)
\* The loop of renderSteps over the steps: [rendered, templateCache].
RenderLoop(steps, compInst, templateCache, rendered) ==
    IF steps = <<>> THEN [rendered |-> rendered, templateCache |-> templateCache]
    ELSE LET step == Head(steps)
             cacheKey == compInst.type \o ":" \o step.name
             cache == IF cacheKey \in DOMAIN templateCache THEN templateCache
                      ELSE Overlay(templateCache,
                                   [k \in {cacheKey} |-> ParseTemplate(step.run)])
             run == ExecuteTemplate(cache[cacheKey], TemplateContext(compInst))
         IN RenderLoop(Tail(steps), compInst, cache,
                       Append(rendered, RenderedStep(step, run)))

renderSteps(steps, compInst, templateCache) ==
    RenderLoop(steps, compInst, templateCache, <<>>)

RECURSIVE BindJobs(_, _, _, _)
\* First loop of PlanJobs over the instances in `todo`: [err, jobs].
BindJobs(compositions, todo, jobs, templateCache) ==
    IF todo = <<>> THEN [err |-> "", jobs |-> jobs]
    ELSE LET compInst == Head(todo)
         IN IF compInst.type \notin DOMAIN compositions
            THEN [err |-> "MissingCompositionError", jobs |-> jobs]
            ELSE IF compositions[compInst.type].defaultJob = None
            THEN [err |-> "MissingDefaultJobError", jobs |-> jobs]
            ELSE LET jobDef == compositions[compInst.type].defaultJob
                     r == renderSteps(jobDef.steps, compInst, templateCache)
                     job == JobInstance(compInst, jobDef, r.rendered)
                 IN BindJobs(compositions, Tail(todo),
                             Overlay(jobs, [k \in {job.id} |-> job]),
                             r.templateCache)

\* Keys of compToJobs.
JobKeys(jobs) == {CompKey(jobs[id].component, jobs[id].environment) : id \in DOMAIN jobs}

JobsOfKey(jobs, key) ==
    {id \in DOMAIN jobs : CompKey(jobs[id].component, jobs[id].environment) = key}

\* Every compToJobs the first loop of resolveDependencies can build: the ids
\* of one key are appended in the order the job map is ranged.
CompToJobs(jobs) ==
    {m \in [JobKeys(jobs) -> UNION {Orders(JobsOfKey(jobs, k)) : k \in JobKeys(jobs)}] :
        \A k \in JobKeys(jobs) : m[k] \in Orders(JobsOfKey(jobs, k))}

RECURSIVE AppendToJobs(_, _, _)
\* for _, myJob := range myJobs { jobs[myJob].DependsOn = append(..., depJobs...) }
AppendToJobs(jobs, myJobs, depJobs) ==
    IF myJobs = <<>> THEN jobs
    ELSE AppendToJobs([jobs EXCEPT ![Head(myJobs)].dependsOn = @ \o depJobs],
                      Tail(myJobs), depJobs)

RECURSIVE LinkDepsSkipMissing(_, _, _, _)
\* LinkDeps that passes over an edge whose target has no job.
LinkDepsSkipMissing(jobs, compToJobs, myJobs, deps) ==
    IF deps = <<>> THEN [err |-> "", jobs |-> jobs]
    ELSE LET depKey == CompKey(Head(deps).componentName, Head(deps).environment)
         IN IF depKey \notin DOMAIN compToJobs
            THEN LinkDepsSkipMissing(jobs, compToJobs, myJobs, Tail(deps))
            ELSE LinkDepsSkipMissing(AppendToJobs(jobs, myJobs, compToJobs[depKey]),
                                     compToJobs, myJobs, Tail(deps))

RECURSIVE LinkDeps(_, _, _, _)
\* The inner loop of resolveDependencies over one instance's edges.
LinkDeps(jobs, compToJobs, myJobs, deps) ==
    IF deps = <<>> THEN [err |-> "", jobs |-> jobs]
    ELSE LET depKey == CompKey(Head(deps).componentName, Head(deps).environment)
         IN IF depKey \notin DOMAIN compToJobs
            THEN [err |-> "MissingDependencyError", jobs |-> jobs]
            ELSE LinkDeps(AppendToJobs(jobs, myJobs, compToJobs[depKey]),
                          compToJobs, myJobs, Tail(deps))

RECURSIVE planResolveDependencies(_, _, _)
\* JobPlanner.resolveDependencies over the instances in `todo`: [err, jobs].
planResolveDependencies(jobs, compToJobs, todo) ==
    IF todo = <<>> THEN [err |-> "", jobs |-> jobs]
    ELSE LET key == CompKey(Head(todo).componentName, Head(todo).environment)
         IN IF key \notin DOMAIN compToJobs
            THEN planResolveDependencies(jobs, compToJobs, Tail(todo))
            ELSE LET r == LinkDeps(jobs, compToJobs, compToJobs[key], Head(todo).dependsOn)
                 IN IF r.err # "" THEN r
                    ELSE planResolveDependencies(r.jobs, compToJobs, Tail(todo))

PlanJobs ==
    /\ pc = "plan"
    /\ \E order1 \in Orders(DOMAIN instances), order2 \in Orders(DOMAIN instances) :
         LET bound == BindJobs(registry, Flatten(instances, order1), EmptyMap, EmptyMap)
         IN IF bound.err # ""
            THEN Fail(bound.err) /\ UNCHANGED jobInstances
            ELSE \E compToJobs \in CompToJobs(bound.jobs) :
                   LET r == planResolveDependencies(bound.jobs, compToJobs,
                                                    Flatten(instances, order2))
                   IN IF r.err # ""
                      THEN Fail(r.err) /\ UNCHANGED jobInstances
                      ELSE /\ jobInstances' = r.jobs
                           /\ pc' = "cycles"
                           /\ err' = ""
    /\ UNCHANGED <<loader, runner, resolver, file, registry, environmentFlag, intent, normalized, instances, sorted, plan,
                   written, previous, runs>>

(***************************************************************************)
(* Stage 6: the job graph.                                                 *)
(***************************************************************************)
\* VisitDeps without the recursion stack test.
RECURSIVE VisitDepsVisitedOnly(_, _, _)
VisitDepsVisitedOnly(jobs, deps, st) ==
    IF deps = <<>> THEN st
    ELSE VisitDepsVisitedOnly(jobs, Tail(deps),
                              [st EXCEPT !.visited = @ \cup {Head(deps)}])

RECURSIVE hasCycleDFS(_, _, _)
RECURSIVE VisitDeps(_, _, _)
\* st = [found, visited, recStack]; found is the function's result.
hasCycleDFS(jobs, node, st) ==
    LET entered == [found |-> FALSE,
                    visited |-> st.visited \cup {node},
                    recStack |-> st.recStack \cup {node}]
    IN IF node \notin DOMAIN jobs THEN entered
       ELSE LET r == VisitDeps(jobs, jobs[node].dependsOn, entered)
            IN IF r.found THEN r ELSE [r EXCEPT !.recStack = @ \ {node}]

\* The loop of hasCycleDFS over the remaining dependsOn entries.
VisitDeps(jobs, deps, st) ==
    IF deps = <<>> THEN st
    ELSE IF Head(deps) \notin st.visited
         THEN LET r == hasCycleDFS(jobs, Head(deps), st)
              IN IF r.found THEN r ELSE VisitDeps(jobs, Tail(deps), r)
         ELSE IF Head(deps) \in st.recStack
              THEN [st EXCEPT !.found = TRUE]
              ELSE VisitDeps(jobs, Tail(deps), st)

RECURSIVE DetectFrom(_, _, _)
\* The loop of DetectCycles over the job ids in `order`: TRUE on a cycle.
DetectFrom(jobs, order, st) ==
    IF order = <<>> THEN FALSE
    ELSE IF Head(order) \in st.visited THEN DetectFrom(jobs, Tail(order), st)
    ELSE LET r == hasCycleDFS(jobs, Head(order), st)
         IN IF r.found THEN TRUE ELSE DetectFrom(jobs, Tail(order), r)

CycleDetected(jobs, order) ==
    DetectFrom(jobs, order, [found |-> FALSE, visited |-> {}, recStack |-> {}])

DetectCycles ==
    /\ pc = "cycles"
    /\ \E order \in Orders(DOMAIN jobInstances) :
         IF CycleDetected(jobInstances, order)
         THEN Fail("CycleError")
         ELSE pc' = "toposort" /\ err' = ""
    /\ UNCHANGED <<loader, runner, resolver, file, registry, environmentFlag, intent, normalized, instances, jobInstances,
                   sorted, plan, written, previous, runs>>

RECURSIVE Occurrences(_, _)
\* How many entries of deps equal id.
Occurrences(deps, id) ==
    IF deps = <<>> THEN 0
    ELSE (IF Head(deps) = id THEN 1 ELSE 0) + Occurrences(Tail(deps), id)

RECURSIVE Repeat(_, _)
Repeat(x, n) == IF n = 0 THEN <<>> ELSE <<x>> \o Repeat(x, n - 1)

RECURSIVE DependentsOnce(_, _, _)
\* dependents[id] with one entry for each job that depends on id, however
\* often the job lists it.
DependentsOnce(jobs, order, id) ==
    IF order = <<>> THEN <<>>
    ELSE (IF Occurrences(jobs[Head(order)].dependsOn, id) > 0
          THEN <<Head(order)>> ELSE <<>>)
            \o DependentsOnce(jobs, Tail(order), id)

RECURSIVE Dependents(_, _, _)
\* dependents[id] when the second loop ranges the job map in `order`.
Dependents(jobs, order, id) ==
    IF order = <<>> THEN <<>>
    ELSE Repeat(Head(order), Occurrences(jobs[Head(order)].dependsOn, id))
            \o Dependents(jobs, Tail(order), id)

RECURSIVE Release(_, _, _)
\* The loop over dependents[current]: [inDegree, queue].
Release(ds, inDegree, queue) ==
    IF ds = <<>> THEN [inDegree |-> inDegree, queue |-> queue]
    ELSE LET d == Head(ds)
             deg == [inDegree EXCEPT ![d] = @ - 1]
         IN Release(Tail(ds), deg, IF deg[d] = 0 THEN Append(queue, d) ELSE queue)

RECURSIVE Kahn(_, _, _, _, _)
Kahn(jobs, order, queue, inDegree, out) ==
    IF queue = <<>> THEN out
    ELSE LET current == Head(queue)
             r == Release(Dependents(jobs, order, current), inDegree, Tail(queue))
         IN Kahn(jobs, order, r.queue, r.inDegree, Append(out, current))

\* The jobs whose in-degree starts at zero, and the others.
Roots(jobs) == {id \in DOMAIN jobs : jobs[id].dependsOn = <<>>}

\* A sorted slice that takes the roots and then the other jobs as ranged,
\* without waiting for their in-degree to reach zero.
TopologicalOrderNoWait(jobs, order, queue) == queue \o order

\* TopologicalSort's sorted slice: the second loop ranges the jobs that have
\* dependencies in `order`, the third loop enqueues the roots as `queue`.
TopologicalOrder(jobs, order, queue) ==
    Kahn(jobs, order, queue, [id \in DOMAIN jobs |-> Len(jobs[id].dependsOn)], <<>>)

TopologicalSort ==
    /\ pc = "toposort"
    /\ \E order \in Orders(DOMAIN jobInstances \ Roots(jobInstances)),
          queue \in Orders(Roots(jobInstances)) :
         LET out == TopologicalOrder(jobInstances, order, queue)
         IN IF Len(out) # Cardinality(DOMAIN jobInstances)
            THEN Fail("CycleError") /\ UNCHANGED sorted
            ELSE /\ sorted' = out
                 /\ pc' = "render"
                 /\ err' = ""
    /\ UNCHANGED <<loader, runner, resolver, file, registry, environmentFlag, intent, normalized, instances, jobInstances,
                   plan, written, previous, runs>>

(***************************************************************************)
(* Stage 7: render and write.                                              *)
(***************************************************************************)
PlanJob(job) ==
    [id |-> job.id,
     name |-> job.name,
     component |-> job.component,
     environment |-> job.environment,
     composition |-> job.composition,
     job |-> job.name,
     path |-> job.path,
     dependsOn |-> job.dependsOn,
     steps |-> job.steps,
     env |-> job.config,
     config |-> job.config]

\* The plan RenderPlan builds when it ranges the job map in `order`.
RenderedPlan(metadata, jobs, order) ==
    [apiVersion |-> "sourceplane.io/v1",
     kind |-> "Workflow",
     metadata |-> [name |-> metadata.name, description |-> metadata.description],
     jobs |-> [i \in DOMAIN order |-> PlanJob(jobs[order[i]])]]

RenderPlan ==
    /\ pc = "render"
    /\ \E order \in Orders(DOMAIN jobInstances) :
         plan' = RenderedPlan(intent.metadata, jobInstances, order)
    /\ pc' = "write"
    \* generatePlan never reads sorted again: RenderPlan got the job map
    /\ sorted' = None
    /\ UNCHANGED <<loader, runner, resolver, file, registry, environmentFlag, err, intent, normalized, instances,
                   jobInstances, written, previous, runs>>

WritePlan ==
    /\ pc = "write"
    /\ written' = plan
    /\ pc' = "done"
    /\ UNCHANGED <<loader, runner, resolver, file, registry, environmentFlag, err, intent, normalized, instances,
                   jobInstances, sorted, plan, previous, runs>>

\* The plan command is run again on the same files.
Recompile ==
    /\ pc \in {"done", "failed"}
    /\ runs < MaxRuns
    /\ runs' = runs + 1
    /\ previous' = IF written # None THEN written ELSE previous
    /\ pc' = "load"
    /\ err' = ""
    /\ intent' = None
    /\ normalized' = None
    /\ instances' = None
    /\ jobInstances' = None
    /\ sorted' = None
    /\ plan' = None
    /\ written' = None
    /\ UNCHANGED <<loader, runner, resolver, file, registry, environmentFlag>>

Next ==
    \/ LoadIntent
    \/ NormalizeIntent
    \/ ValidateAllComponents
    \/ Expand
    \/ PlanJobs
    \/ DetectCycles
    \/ TopologicalSort
    \/ RenderPlan
    \/ WritePlan

Spec == Init /\ [][Next]_vars

(***************************************************************************)
(* The plan command run MaxRuns times on the same files.                   *)
(***************************************************************************)
RerunIntents ==
    {f \in GraphIntents :
        /\ f.environments["dev"].selectors = <<>>
        /\ f.environments["prod"].selectors \in {<<"*">>, <<"db", "web">>}}

InitRerun == \E f \in RerunIntents : Start(f, DefaultRegistry)

NextRerun == Next \/ Recompile

SpecRerun == InitRerun /\ [][NextRerun]_vars

(***************************************************************************)
(* Configuration inputs: one component in one environment, with values at  *)
(* the environment, group and component level.                             *)
(***************************************************************************)
\* Every map that gives some of the keys of pool a value of that key's pool.
MapsOver(pool) ==
    UNION {{m \in [D -> UNION Range(pool)] : \A k \in D : m[k] \in pool[k]} :
              D \in SUBSET DOMAIN pool}

EnvDefaults ==
    MapsOver([replicas |-> {NumVal(10), StrVal("e-{{.environment}} ")},
              path |-> {StrVal("envs/{{ .environment }}")}])

PlatformDefaults ==
    MapsOver([replicas |-> {NumVal(2), StrVal("g-{{.group}}")},
              path |-> {StrVal("grp"), NumVal(7)}])

ComponentInputs ==
    MapsOver([replicas |-> {NumVal(5), StrVal(" c-{{.component}}{{x}}")},
              path |-> {StrVal("in"), NumVal(9)}])

ComponentPaths == {"", "apps/{{.component}}", "{{.group}}"}

MergeIntents ==
    {Intent(<<Component("web", "helm", dom, TRUE, p, in, <<>>)>>,
            [e \in {"prod"} |-> Environment(<<"web">>, ed, EmptyMap)],
            [g \in {"platform"} |-> [defaults |-> gd, policies |-> EmptyMap]]) :
        dom \in {"", "platform"}, p \in ComponentPaths, in \in ComponentInputs,
        ed \in EnvDefaults, gd \in PlatformDefaults}

InitMerge == \E f \in MergeIntents : Start(f, DefaultRegistry)

SpecMerge == InitMerge /\ [][Next]_vars

(***************************************************************************)
(* Dependency lists: db and web are both declared and enabled, web carries *)
(* up to MaxEdges edges, the same edge possibly more than once.            *)
(***************************************************************************)
EdgeIntents ==
    {Intent(<<Component("db", "helm", "", TRUE, "", EmptyMap, <<>>),
              Component("web", "helm", "", TRUE, "", EmptyMap, deps)>>,
            [e \in EnvNames |-> Environment(sel[e], EmptyMap, EmptyMap)], EmptyMap) :
        deps \in SeqsUpTo(Edges, MaxEdges),
        sel \in [dev : {<<>>, <<"*">>}, prod : {<<"db", "web">>, <<"*">>}]}

InitEdge == \E f \in EdgeIntents : Start(f, DefaultRegistry)

SpecEdge == InitEdge /\ [][Next]_vars

(***************************************************************************)
(* Documents with defects: a file that cannot be read, an intent without a *)
(* name, components without a name or a type or of a type no composition   *)
(* has, edges on missing components and on the component itself.           *)
(***************************************************************************)
DefectComponents ==
    {Component(n, t, "", TRUE, "", EmptyMap, deps) :
        n \in {"", "db", "web"}, t \in {"", "helm", "ghost"},
        deps \in {<<>>, <<Dependency("db", "")>>, <<Dependency("web", "")>>}}

DefectDeclarations ==
    {cs \in UNION {[1..k -> DefectComponents] : k \in 1..Cardinality(CompNames)} :
        DistinctNames(cs)}

DefectIntents ==
    {[Intent(cs, [e \in EnvNames |->
                    Environment(IF e = "prod" THEN sel ELSE <<>>, EmptyMap, EmptyMap)],
             EmptyMap) EXCEPT !.metadata.name = name] :
        cs \in DefectDeclarations, sel \in {<<"*">>, <<"web">>}, name \in {"", "demo"}}
      \cup {Unreadable}

InitDefect == \E f \in DefectIntents : Start(f, DefaultRegistry)

SpecDefect == InitDefect /\ [][Next]_vars

(***************************************************************************)
(* The plan command with the flag --env: unset, or one of the environments. *)
(***************************************************************************)
EnvironmentFlags == {""} \cup EnvNames

InitFilter ==
    \E f \in EdgeIntents, flag \in EnvironmentFlags : StartWith(f, DefaultRegistry, flag)

SpecFilter == InitFilter /\ [][Next]_vars

(***************************************************************************)
(* Template strings: one component in prod whose input and whose           *)
(* environment default are strings with placeholders, other {{...}} text,  *)
(* braces that do not pair up and a placeholder broken over two lines.     *)
(***************************************************************************)
TemplateStrings ==
    {"{{.environment}}", "a-{{ .component }}", "{{.group}}{{x}}", "{{.Values.x}}",
     "{{ {{.environment}} }}", "{{{a}}}", "x{{", "{{.component}}}}", "{{ x\n}}",
     "{{a}{{b}}}"}

TemplateNames == {"web", "{{x}}", "{{"}

TemplateIntents ==
    {Intent(<<Component(n, "helm", dom, TRUE, "", [k \in {"url"} |-> StrVal(v)], <<>>)>>,
            [e \in {"prod"} |-> Environment(<<n>>, [k \in {"tag"} |-> StrVal(d)], EmptyMap)],
            [g \in {"platform"} |-> [defaults |-> EmptyMap, policies |-> EmptyMap]]) :
        n \in TemplateNames, dom \in {"", "platform"},
        v \in TemplateStrings, d \in {"{{ .group }}", "t{{\n}}", "{{.component}}x}}"}}

InitTemplate == \E f \in TemplateIntents : Start(f, DefaultRegistry)

SpecTemplate == InitTemplate /\ [][Next]_vars

(***************************************************************************)
(* Names that hold the separator of the job id: a component web@eu next to *)
(* web, an environment eu@prod next to prod.                               *)
(***************************************************************************)
SeparatorSelectors == {<<>>, <<"*">>, <<"web">>, <<"web@eu">>}

SeparatorDeclarations ==
    {<<Component("web", "helm", "", TRUE, "", EmptyMap, deps)>> \o rest :
        deps \in {<<>>, <<Dependency("web@eu", "")>>},
        rest \in {<<>>, <<Component("web@eu", "helm", "", TRUE, "", EmptyMap, <<>>)>>}}

SeparatorIntents ==
    {Intent(cs, [e \in {"prod", "eu@prod"} |-> Environment(sel[e], EmptyMap, EmptyMap)],
            EmptyMap) :
        cs \in SeparatorDeclarations,
        sel \in [{"prod", "eu@prod"} -> SeparatorSelectors]}

InitSeparator == \E f \in SeparatorIntents : Start(f, DefaultRegistry)

SpecSeparator == InitSeparator /\ [][Next]_vars

(***************************************************************************)
(* Policies: one component in prod, with policies at the group and at the  *)
(* environment, and inputs and defaults that use a policy's key.           *)
(***************************************************************************)
GroupPolicies ==
    MapsOver([tier |-> {StrVal("g-{{.group}}")},
              approval |-> {StrVal("two"), NumVal(2)}])

EnvPolicies ==
    MapsOver([tier |-> {StrVal("e-{{.environment}}")},
              approval |-> {StrVal("one")}])

PolicyInputs == MapsOver([tier |-> {StrVal("in")}, replicas |-> {NumVal(5)}])

PolicyIntents ==
    {Intent(<<Component("web", "helm", dom, TRUE, "", in, <<>>)>>,
            [e \in {"prod"} |-> Environment(<<"web">>, ed, ep)],
            [g \in {"platform"} |-> [defaults |-> EmptyMap, policies |-> gp]]) :
        dom \in {"", "platform", "ghost"}, in \in PolicyInputs,
        ed \in MapsOver([approval |-> {StrVal("d")}]),
        ep \in EnvPolicies, gp \in GroupPolicies}

InitPolicy == \E f \in PolicyIntents : Start(f, DefaultRegistry)

SpecPolicy == InitPolicy /\ [][Next]_vars

(***************************************************************************)
(* Compositions whose default job has steps.                               *)
(***************************************************************************)
\* The steps of the job definitions: named or not, each with a run template.
Steps ==
    {[name |-> n, run |-> run, onFailure |-> ""] :
        n \in {"", "build", "test"},
        run \in {"make {{.Component}}", "kubectl -n {{.Environment}} apply", "echo {{.Type}}"}}

StepRegistries ==
    {[t \in {"helm"} |->
         [type |-> t, defaultJob |-> [name |-> "deploy", steps |-> steps], required |-> {}]] :
       steps \in [1..2 -> Steps]}

StepIntents ==
    {Intent(<<Component("web", "helm", "", TRUE, "", EmptyMap, <<>>)>>,
            [e \in EnvNames |-> Environment(sel[e], EmptyMap, EmptyMap)], EmptyMap) :
        sel \in [EnvNames -> {<<>>, <<"web">>}]}

InitSteps == \E f \in StepIntents, reg \in StepRegistries : Start(f, reg)

SpecSteps == InitSteps /\ [][Next]_vars

(***************************************************************************)
(* The operations below run outside generatePlan; while one of them runs,  *)
(* the pipeline is idle.                                                   *)
(***************************************************************************)
pipeline == <<file, registry, environmentFlag, pc, err, intent, normalized,
              instances, jobInstances, sorted, plan, written, previous, runs>>

Idle ==
    /\ file = None
    /\ registry = None
    /\ environmentFlag = ""
    /\ pc = "idle"
    /\ err = ""
    /\ intent = None
    /\ normalized = None
    /\ instances = None
    /\ jobInstances = None
    /\ sorted = None
    /\ plan = None
    /\ written = None
    /\ previous = None
    /\ runs = 0

(***************************************************************************)
(* Loading the compositions of a config directory (exact path): every      *)
(* subdirectory is a type and may hold job.yaml and schema.yaml.           *)
(***************************************************************************)
TypeDirs == {"charts", "helm", "terraform"}

\* The subdirectories of a config directory: name -> which files exist.
ConfigDirs ==
    UNION {[D -> [job : BOOLEAN, schema : BOOLEAN]] : D \in SUBSET TypeDirs}

\* jobFiles: the types whose directory has job.yaml.
jobFiles(dir) == {t \in DOMAIN dir : dir[t].job}

\* schemaFiles: the types whose directory has schema.yaml.
schemaFiles(dir) == {t \in DOMAIN dir : dir[t].schema}

\* The types the loop over jobFiles fails on; every file that exists is
\* taken to parse, every job.yaml to define a job.
LoadCompositionsFromDir ==
    /\ loader # None
    /\ loader.state = "call"
    /\ loader' =
          IF jobFiles(loader.dir) = {}
          THEN [loader EXCEPT !.state = "failed", !.err = "EmptyRegistryError"]
          ELSE IF jobFiles(loader.dir) \ schemaFiles(loader.dir) # {}
          THEN [loader EXCEPT !.state = "failed", !.err = "MissingSchemaError"]
          ELSE [loader EXCEPT !.state = "returned", !.types = jobFiles(loader.dir)]
    /\ UNCHANGED <<runner, resolver, pipeline>>

InitLoader ==
    /\ \E dir \in ConfigDirs :
          loader = [dir |-> dir, state |-> "call", err |-> "", types |-> {}]
    /\ runner = None
    /\ resolver = None
    /\ Idle

NextLoader == LoadCompositionsFromDir

SpecLoader == InitLoader /\ [][NextLoader]_vars

(***************************************************************************)
(* The job graph on its own: NewJobGraph over any job map, then            *)
(* DetectCycles or TopologicalSort.                                        *)
(***************************************************************************)
GraphIds == {"a", "b", "c"}

\* An id that names no job of the map.
UnknownId == "x"

\* The job maps handed to NewJobGraph.
JobMaps ==
    UNION {{[id \in D |-> [id |-> id, dependsOn |-> deps[id]]] :
                deps \in [D -> SeqsUpTo(GraphIds \cup {UnknownId}, MaxEdges)]} :
           D \in SUBSET GraphIds \ {{}}}

NewJobGraph(jobs) ==
    /\ jobInstances = jobs
    /\ pc \in {"cycles", "toposort"}
    /\ err = ""
    /\ file = None /\ registry = None /\ environmentFlag = ""
    /\ intent = None /\ normalized = None /\ instances = None
    /\ sorted = None /\ plan = None /\ written = None /\ previous = None
    /\ runs = 0
    /\ loader = None /\ runner = None /\ resolver = None

InitGraph == \E jobs \in JobMaps : NewJobGraph(jobs)

NextGraph == DetectCycles \/ TopologicalSort

SpecGraph == InitGraph /\ [][NextGraph]_vars

(***************************************************************************)
(* liteci run: Runner.Run over a plan file.                                *)
(***************************************************************************)
MaxPlanJobs == 3

\* The steps the plan files give to each job id.
PlanSteps ==
    [a |-> <<[name |-> "build", run |-> "make", onFailure |-> "continue"],
              [name |-> "test", run |-> "make test", onFailure |-> ""]>>,
     b |-> <<[name |-> "apply", run |-> "kubectl apply", onFailure |-> "stop"]>>,
     c |-> <<>>]

RunnerJobs ==
    {[id |-> id, dependsOn |-> deps, steps |-> PlanSteps[id]] :
        id \in GraphIds, deps \in SeqsUpTo(GraphIds \cup {UnknownId}, MaxDeps)}

\* The plans loadPlan returns: at least one job, in any order, ids not
\* necessarily distinct.
Plans == UNION {[1..k -> RunnerJobs] : k \in 1..MaxPlanJobs}

RECURSIVE InsertSorted(_, _)
InsertSorted(x, ids) ==
    IF ids = <<>> THEN <<x>>
    ELSE IF StrLess(x, Head(ids)) THEN <<x>> \o ids
    ELSE <<Head(ids)>> \o InsertSorted(x, Tail(ids))

RECURSIVE SortStrings(_)
\* sort.Strings
SortStrings(ids) ==
    IF ids = <<>> THEN <<>> ELSE InsertSorted(Head(ids), SortStrings(Tail(ids)))

\* jobsByID: the last job of the slice with the id.
JobsByID(jobs) ==
    [id \in {jobs[i].id : i \in DOMAIN jobs} |->
        jobs[CHOOSE i \in DOMAIN jobs :
                 jobs[i].id = id /\ \A j \in DOMAIN jobs : jobs[j].id = id => j <= i]]

RECURSIVE RunnerInDegree(_, _)
\* inDegree after the second loop: one for every dependsOn entry of every
\* job of the slice with the id.
RunnerInDegree(jobs, id) ==
    IF jobs = <<>> THEN 0
    ELSE (IF Head(jobs).id = id THEN Len(Head(jobs).dependsOn) ELSE 0)
            + RunnerInDegree(Tail(jobs), id)

RECURSIVE RunnerDependents(_, _)
\* dependents[id] after the second loop, the slice ranged in its order.
RunnerDependents(jobs, id) ==
    IF jobs = <<>> THEN <<>>
    ELSE Repeat(Head(jobs).id, Occurrences(Head(jobs).dependsOn, id))
            \o RunnerDependents(Tail(jobs), id)

\* A job of the slice depends on an id that no job of the slice has.
UnknownDependency(jobs) ==
    \E i \in DOMAIN jobs : \E k \in DOMAIN jobs[i].dependsOn :
        jobs[i].dependsOn[k] \notin DOMAIN JobsByID(jobs)

RECURSIVE RunnerKahn(_, _, _, _)
\* The queue loop of topologicalOrder: the ids in the order they are taken.
RunnerKahn(jobs, queue, inDegree, ordered) ==
    IF queue = <<>> THEN ordered
    ELSE LET current == Head(queue)
             r == Release(RunnerDependents(jobs, current), inDegree, Tail(queue))
         IN RunnerKahn(jobs, SortStrings(r.queue), r.inDegree, Append(ordered, current))

\* A slice that keeps the order of the plan file.
PlanFileOrder(jobs) ==
    IF UnknownDependency(jobs) THEN [err |-> "UnknownJobError", ordered |-> <<>>]
    ELSE [err |-> "", ordered |-> jobs]

topologicalOrder(jobs) ==
    IF UnknownDependency(jobs) THEN [err |-> "UnknownJobError", ordered |-> <<>>]
    ELSE LET byID == JobsByID(jobs)
             inDegree == [id \in DOMAIN byID |-> RunnerInDegree(jobs, id)]
             zero == {id \in DOMAIN byID : inDegree[id] = 0}
             queue == SortStrings(CHOOSE o \in Orders(zero) : TRUE)
             ids == RunnerKahn(jobs, queue, inDegree, <<>>)
         IN IF Len(ids) # Len(jobs)
            THEN [err |-> "PlanCycleError", ordered |-> <<>>]
            ELSE [err |-> "", ordered |-> [i \in DOMAIN ids |-> byID[ids[i]]]]

\* Where Run stands after the step at position `step` of job `job`.
AfterStep(r, job, step) ==
    IF step < Len(r.ordered[job].steps)
    THEN [r EXCEPT !.state = "step", !.job = job, !.step = step + 1]
    ELSE IF job < Len(r.ordered)
    THEN [r EXCEPT !.state = "job", !.job = job + 1, !.step = 0]
    ELSE [r EXCEPT !.state = "returned", !.job = 0, !.step = 0]

\* Run up to its first job: the nil test and topologicalOrder.
Run ==
    /\ runner # None /\ runner.state = "call"
    /\ runner' =
         IF runner.plan = None
         THEN [runner EXCEPT !.state = "failed", !.err = "NilPlanError"]
         ELSE LET r == topologicalOrder(runner.plan.jobs)
              IN IF r.err # ""
                 THEN [runner EXCEPT !.state = "failed", !.err = r.err]
                 ELSE [runner EXCEPT !.state = "job", !.ordered = r.ordered,
                                     !.job = 1, !.step = 0]
    /\ UNCHANGED <<loader, resolver, pipeline>>

\* The head of the outer loop: the job's line is printed.
RunJob ==
    /\ runner # None /\ runner.state = "job"
    /\ LET visited == [runner EXCEPT !.visited = Append(@, runner.ordered[runner.job].id)]
       IN runner' = AfterStep(visited, runner.job, 0)
    /\ UNCHANGED <<loader, resolver, pipeline>>

\* The command run without failure handling: Run goes on after a failure
\* when the step says onFailure: continue.
StepFailedHonouringOnFailure(r, job, step) ==
    IF r.ordered[job].steps[step].onFailure = "continue"
    THEN AfterStep(r, job, step)
    ELSE [r EXCEPT !.state = "failed", !.err = "StepError"]

\* cmd.Run returned an error.
StepFailed(r, job, step) == [r EXCEPT !.state = "failed", !.err = "StepError"]

\* One pass of the inner loop: the step is printed in a dry run, and executed
\* with either outcome otherwise.
RunStep ==
    /\ runner # None /\ runner.state = "step"
    /\ LET id == runner.ordered[runner.job].id
       IN IF runner.dryRun
          THEN runner' = AfterStep([runner EXCEPT !.printed = Append(@, <<id, runner.step>>)],
                                   runner.job, runner.step)
          ELSE \E ok \in BOOLEAN :
                 LET ran == [runner EXCEPT !.executed = Append(@, <<id, runner.step, ok>>)]
                 IN runner' = IF ok THEN AfterStep(ran, runner.job, runner.step)
                              ELSE StepFailed(ran, runner.job, runner.step)
    /\ UNCHANGED <<loader, resolver, pipeline>>

InitRunner ==
    /\ \E planFile \in {None} \cup {[jobs |-> jobs] : jobs \in Plans}, dryRun \in BOOLEAN :
          runner = [plan |-> planFile, dryRun |-> dryRun, state |-> "call", err |-> "",
                    ordered |-> <<>>, job |-> 0, step |-> 0,
                    visited |-> <<>>, printed |-> <<>>, executed |-> <<>>]
    /\ loader = None
    /\ resolver = None
    /\ Idle

NextRunner == Run \/ RunJob \/ RunStep

SpecRunner == InitRunner /\ [][NextRunner]_vars

(***************************************************************************)
(* DependencyResolver.ResolveComponentSet over the normalized components.  *)
(***************************************************************************)
\* The component maps handed to NewDependencyResolver: a dependency may name
\* a component the map does not declare.
ResolverComponents ==
    UNION {[D -> {[name |-> "", dependsOn |-> deps] :
                    deps \in SeqsUpTo({Dependency(c, "") : c \in GraphIds}, MaxDeps)}] :
           D \in SUBSET GraphIds}

GetDependencies(components, componentName) ==
    IF componentName \notin DOMAIN components THEN <<>>
    ELSE [i \in DOMAIN components[componentName].dependsOn |->
             components[componentName].dependsOn[i].component]

\* A pass over included starts: every key present is still to be visited.
StartPass(r) == [r EXCEPT !.state = "pass", !.todo = r.included, !.changed = FALSE]

\* The end of a pass that returns whether or not the pass added a component.
ReturnAfterPass(r) == [r EXCEPT !.state = "returned", !.todo = {}]

\* The end of the range over included: `for changed`.
EndPass(r) == IF r.changed THEN StartPass(r) ELSE [r EXCEPT !.state = "returned", !.todo = {}]

\* The call up to the first pass: the keys of changedComponents are copied.
ResolveComponentSet ==
    /\ resolver # None /\ resolver.state = "call"
    /\ resolver' = StartPass([resolver EXCEPT !.included = resolver.changedComponents])
    /\ UNCHANGED <<loader, runner, pipeline>>

\* One iteration of `for comp := range included`: the dependencies of comp
\* are added; a key added while the map is ranged may or may not be produced
\* later in the same pass.
VisitIncluded ==
    /\ resolver # None /\ resolver.state = "pass" /\ resolver.todo # {}
    /\ \E comp \in resolver.todo :
         LET added == Range(GetDependencies(resolver.components, comp)) \ resolver.included
         IN \E produced \in SUBSET added :
              resolver' = [resolver EXCEPT
                              !.included = @ \cup added,
                              !.changed = @ \/ added # {},
                              !.todo = (@ \ {comp}) \cup produced]
    /\ UNCHANGED <<loader, runner, pipeline>>

FinishPass ==
    /\ resolver # None /\ resolver.state = "pass" /\ resolver.todo = {}
    /\ resolver' = EndPass(resolver)
    /\ UNCHANGED <<loader, runner, pipeline>>

InitResolver ==
    /\ \E components \in ResolverComponents, changedComponents \in SUBSET GraphIds :
          resolver = [components |-> components, changedComponents |-> changedComponents,
                      state |-> "call", included |-> {}, todo |-> {}, changed |-> FALSE]
    /\ loader = None
    /\ runner = None
    /\ Idle

NextResolver == ResolveComponentSet \/ VisitIncluded \/ FinishPass

\* The call runs to its end: nothing else is scheduled against it.
SpecResolver == InitResolver /\ [][NextResolver]_vars /\ WF_vars(NextResolver)

(***************************************************************************)
(* Vocabulary of the properties.                                           *)
(***************************************************************************)
\* The declaration of a component name in the intent document.
Declared(name) == \E i \in DOMAIN file.components : file.components[i].name = name

Declaration(name) ==
    file.components[CHOOSE i \in DOMAIN file.components : file.components[i].name = name]

DeclaredNames == [i \in DOMAIN file.components |-> file.components[i].name]

\* Is the component listed by the environment's selectors of the document?
Listed(envName, name) ==
    \/ Contains(file.environments[envName].selectors, name)
    \/ Contains(file.environments[envName].selectors, "*") /\ Declared(name)

\* Positions of the plan jobs of one (environment, component) pair.
PlanJobsOf(p, envName, name) ==
    {i \in DOMAIN p.jobs : p.jobs[i].environment = envName /\ p.jobs[i].component = name}

DependsOnSet(job) == Range(job.dependsOn)

RECURSIVE ReachableIn(_, _, _)
\* The job ids reachable from the ids in `from` along dependsOn, in at most n steps.
ReachableIn(jobs, from, n) ==
    IF n = 0 THEN from
    ELSE LET next == from \cup UNION {DependsOnSet(jobs[id]) : id \in from \cap DOMAIN jobs}
         IN ReachableIn(jobs, next, n - 1)

\* A directed cycle among the job ids of the map.
GraphHasCycle(jobs) ==
    \E id \in DOMAIN jobs :
        id \in ReachableIn(jobs, DependsOnSet(jobs[id]), Cardinality(DOMAIN jobs))

\* The ids of a sequence never go down in byte order.
LexOrdered(ids) == \A i, j \in DOMAIN ids : i < j => ~StrLess(ids[j], ids[i])

RECURSIVE RootsOf(_, _)
\* The ids of `ids` that have no dependency, in their order in `ids`.
RootsOf(jobs, ids) ==
    IF ids = <<>> THEN <<>>
    ELSE (IF jobs[Head(ids)].dependsOn = <<>> THEN <<Head(ids)>> ELSE <<>>)
            \o RootsOf(jobs, Tail(ids))

PlanIds(p) == [i \in DOMAIN p.jobs |-> p.jobs[i].id]

AllInstances == UNION {Range(instances[e]) : e \in DOMAIN instances}

(***************************************************************************)
(* Properties.                                                             *)
(***************************************************************************)
\* C1: in every written plan each dependsOn id of a job is the id of a job
\* that stands earlier in the job sequence.
C1_PlanIsTopologicallyOrdered ==
    pc = "done" =>
        \A i \in DOMAIN written.jobs :
            \A d \in DependsOnSet(written.jobs[i]) :
                \E j \in 1..(i - 1) : written.jobs[j].id = d

\* C2: a job graph with a cycle never gets past cycle detection: compile
\* fails there with a cycle error and writes no plan.
C2_CycleIsRejected ==
    (pc \in {"cycles", "toposort", "render", "write", "done"}
        \/ (pc = "failed" /\ err = "CycleError"))
    => (GraphHasCycle(jobInstances)
            => /\ pc \in {"cycles", "failed"}
               /\ written = None)

\* C2 witness: a mutual dependency of two jobs was rejected with a cycle error.
C2_Witness ==
    /\ pc = "failed"
    /\ err = "CycleError"
    /\ \E a, b \in DOMAIN jobInstances :
          /\ a # b
          /\ a \in DependsOnSet(jobInstances[b])
          /\ b \in DependsOnSet(jobInstances[a])

\* C3: the written plan holds exactly one job per (environment, component)
\* pair that is listed and enabled in the document, and none for other pairs.
C3_Completeness ==
    pc = "done" =>
        \A e \in DOMAIN file.environments, c \in CompNames :
            Cardinality(PlanJobsOf(written, e, c)) =
                IF Listed(e, c) /\ Declared(c) /\ Declaration(c).enabled THEN 1 ELSE 0

\* C4: a component declared with enabled = false has no instance in any
\* environment and no job in the plan.
C4_DisabledIsSkipped ==
    /\ pc \in {"plan", "cycles", "toposort", "render", "write", "done"} =>
          \A inst \in AllInstances : Declaration(inst.componentName).enabled
    /\ pc = "done" =>
          \A i \in DOMAIN written.jobs : Declaration(written.jobs[i].component).enabled

\* C5: a second run over the same document and compositions writes the plan
\* the first run wrote.
C5_Determinism ==
    (pc = "done" /\ runs > 1 /\ previous # None) => written = previous

\* C6: the jobs of the first in-degree-zero batch stand in byte order of their
\* ids, in the result of the topological sort and in the written plan.
C6_TieBreak ==
    /\ pc = "render" => LexOrdered(RootsOf(jobInstances, sorted))
    /\ pc = "done" => LexOrdered(RootsOf(jobInstances, PlanIds(written)))

\* The value the document gives key k for an instance, by level: component
\* inputs, then the defaults of the component's group, then the environment
\* defaults.  Levels(inst) lists the three maps in that order.
Levels(inst) ==
    <<Declaration(inst.componentName).inputs,
      GroupDefaults(file.groups, Declaration(inst.componentName)),
      file.environments[inst.environment].defaults>>

DeclaredKeys(inst) == UNION {DOMAIN Levels(inst)[i] : i \in 1..3}

Winner(inst, k) ==
    Levels(inst)[CHOOSE i \in 1..3 :
                    /\ k \in DOMAIN Levels(inst)[i]
                    /\ \A j \in 1..(i - 1) : k \notin DOMAIN Levels(inst)[j]][k]

\* A value after template interpolation for the instance.
Interpolated(inst, v) ==
    IF v.kind = "string"
    THEN StrVal(interpolateString(v.str, inst.environment, inst.domain, inst.componentName))
    ELSE v

Expanded == pc \in {"plan", "cycles", "toposort", "render", "write", "done"}

C8_PathPriority ==
    Expanded =>
        \A inst \in AllInstances :
            LET comp == Declaration(inst.componentName)
                groupPath == DefaultsPath(GroupDefaults(file.groups, comp))
                envPath == DefaultsPath(file.environments[inst.environment].defaults)
                chosen == IF comp.path # "" THEN comp.path
                          ELSE IF groupPath # "" THEN groupPath
                          ELSE IF envPath # "" THEN envPath
                          ELSE "./"
            IN /\ inst.path # ""
               /\ inst.path = Interpolated(inst, StrVal(chosen)).str

\* C9: normalization replaces a selector list that contains the wildcard by
\* the declared component names in declaration order.
C9_WildcardDeclarationOrder ==
    pc \in {"validate", "expand", "plan", "cycles", "toposort", "render", "write", "done"} =>
        \A e \in DOMAIN file.environments :
            Contains(file.environments[e].selectors, "*")
                => normalized.environments[e].selectors = DeclaredNames

\* The job id an edge of the document targets for an instance in envName.
TargetOf(edge, envName) ==
    JobID(edge.component,
          IF edge.environment = "" THEN envName ELSE edge.environment,
          registry[Declaration(edge.component).type].defaultJob.name)

Planned == pc \in {"cycles", "toposort", "render", "write", "done"}
             \/ (pc = "failed" /\ err = "CycleError")

\* C10: the job of component c in environment e depends on exactly the jobs
\* its edges name: the target component's job in e for an edge with an empty
\* environment, the target's job in the named environment otherwise.
C10_SameEnvironmentDependency ==
    Planned =>
        \A id \in DOMAIN jobInstances :
            LET job == jobInstances[id]
                edges == Declaration(job.component).dependsOn
            IN DependsOnSet(job) = {TargetOf(edges[i], job.environment) : i \in DOMAIN edges}

\* C10 witness: web declares an edge on db with an empty environment, and its
\* job depends on db's dev job in dev and on db's prod job in prod.
C10_Witness ==
    /\ Planned
    /\ Declared("web")
    /\ Declaration("web").dependsOn = <<Dependency("db", "")>>
    /\ {"web@dev.deploy", "web@prod.deploy"} \subseteq DOMAIN jobInstances
    /\ jobInstances["web@dev.deploy"].dependsOn = <<"db@dev.deploy">>
    /\ jobInstances["web@prod.deploy"].dependsOn = <<"db@prod.deploy">>

\* Has the plan stage run on the expanded instances?
PlanRan == instances # None /\ pc # "plan"

InstanceKeys == {CompKey(inst.componentName, inst.environment) : inst \in AllInstances}

\* Some resolved edge of an instance targets a (component, environment)
\* pair that has no instance, hence no job.
Dangling ==
    \E inst \in AllInstances :
        \E i \in DOMAIN inst.dependsOn :
            CompKey(inst.dependsOn[i].componentName, inst.dependsOn[i].environment)
                \notin InstanceKeys

\* C11: once PlanJobs has run, either some resolved edge has no target job
\* and planning failed with the missing-dependency error and no job map, or
\* every id in every job's dependsOn is the id of a job of the map.
C11_NoUnknownDependency ==
    PlanRan =>
        IF Dangling
        THEN pc = "failed" /\ err = "MissingDependencyError" /\ jobInstances = None
        ELSE /\ jobInstances # None
             /\ \A id \in DOMAIN jobInstances :
                   DependsOnSet(jobInstances[id]) \subseteq DOMAIN jobInstances

\* C11 witness: web is expanded in prod with an edge on db, db has no
\* instance in prod, and planning failed with the missing-dependency error.
C11_Witness ==
    /\ PlanRan
    /\ pc = "failed"
    /\ err = "MissingDependencyError"
    /\ \E inst \in AllInstances :
          /\ inst.componentName = "web"
          /\ inst.environment = "prod"
          /\ \E i \in DOMAIN inst.dependsOn : inst.dependsOn[i].componentName = "db"
    /\ "db@prod" \notin InstanceKeys

NoDuplicates(seq) == \A i, j \in DOMAIN seq : i # j => seq[i] # seq[j]

\* C12: no job's dependsOn list holds the same job id twice, in the job map
\* PlanJobs returns and in the written plan.
C12_DependsOnDeduplicated ==
    /\ Planned => \A id \in DOMAIN jobInstances : NoDuplicates(jobInstances[id].dependsOn)
    /\ pc = "done" => \A i \in DOMAIN written.jobs : NoDuplicates(written.jobs[i].dependsOn)

\* The error kinds of each stage that can fail.
ValidateErrors == {"UnknownTypeError", "SchemaValidationError"}

PlanErrors == {"MissingCompositionError", "MissingDefaultJobError", "MissingDependencyError"}

\* C13: an error stops the pipeline at the stage that returned it: the run
\* is failed whenever an error is held, the results of the failing stage and
\* of every later stage do not exist, and a plan is written only by a run
\* in which every earlier stage produced its result without error.
C13_FailFast ==
    /\ err # "" <=> pc = "failed"
    /\ pc = "failed" =>
          /\ plan = None /\ written = None /\ sorted = None
          /\ err = "ReadError" => intent = None
          /\ err \in {"ReadError", "NormalizeError"} => normalized = None
          /\ err \in {"ReadError", "NormalizeError"} \cup ValidateErrors => instances = None
          /\ err # "CycleError" => jobInstances = None
    /\ written # None =>
          /\ pc = "done"
          /\ intent # None /\ normalized # None /\ instances # None
          /\ jobInstances # None /\ plan # None

\* C13 witness: validation failed on an unknown type after load and
\* normalize had succeeded; nothing was expanded, planned or written.
C13_Witness ==
    /\ pc = "failed"
    /\ err = "UnknownTypeError"
    /\ intent # None
    /\ normalized # None
    /\ instances = None
    /\ written = None

\* Did the document load, and has the normalizer run on it?
NormalizeRan == file # Unreadable /\ pc \notin {"load", "normalize"}

\* C14: an intent without a name, or with a component without a name or a
\* type, is rejected by the normalizer: an error and no normalized intent.
C14_NormalizerRejects ==
    NormalizeRan =>
        ((file.metadata.name = "" \/ Rejected(file.components) # {})
            => pc = "failed" /\ err = "NormalizeError" /\ normalized = None)

\* Has validation run on the normalized intent?
ValidateRan == normalized # None /\ pc # "validate"

UnknownTypes ==
    {i \in DOMAIN file.components : file.components[i].type \notin DOMAIN registry}

\* C15: when some declared component has a type outside the registry,
\* validation fails with the unknown-type error and nothing is expanded; every
\* expanded instance has a registry type and binding never misses a composition.
C15_UnknownTypeRejected ==
    /\ ValidateRan =>
          (UnknownTypes # {} =>
              pc = "failed" /\ err = "UnknownTypeError" /\ instances = None)
    /\ instances # None => \A inst \in AllInstances : inst.type \in DOMAIN registry
    /\ err # "MissingCompositionError"

\* C15 witness: db has an unknown type and no environment selects it; web is
\* sound and selected; validation failed with the unknown-type error.
C15_Witness ==
    /\ ValidateRan
    /\ pc = "failed"
    /\ err = "UnknownTypeError"
    /\ Declared("db") /\ Declaration("db").type = "ghost"
    /\ Declared("web") /\ Declaration("web").type = "helm"
    /\ file.environments["prod"].selectors = <<"web">>

\* C16: with a non-empty environment filter every instance and every job of
\* the written plan belongs to the named environment; with an empty filter
\* every environment of the document is expanded.
C16_EnvironmentFilter ==
    /\ (Expanded /\ environmentFlag # "") =>
          \A inst \in AllInstances : inst.environment = environmentFlag
    /\ (pc = "done" /\ environmentFlag # "") =>
          \A i \in DOMAIN written.jobs : written.jobs[i].environment = environmentFlag
    /\ (Expanded /\ environmentFlag = "") =>
          DOMAIN instances = DOMAIN file.environments

\* Does s hold a "{{", then any text, then a "}}"?
HasTemplate(s) ==
    \E i \in 1..(Len(s) - 3) :
        /\ SubSeq(s, i, i + 1) = "{{"
        /\ \E j \in (i + 2)..(Len(s) - 1) : SubSeq(s, j, j + 1) = "}}"

\* C17: after expansion no string value of an instance's inputs holds a
\* {{...}} substring.
C17_TemplateClosure ==
    Expanded =>
        \A inst \in AllInstances :
            \A k \in DOMAIN inst.inputs :
                inst.inputs[k].kind = "string" => ~HasTemplate(inst.inputs[k].str)

\* The (component, environment) pairs that have an instance.
InstancePairs == {<<inst.componentName, inst.environment>> : inst \in AllInstances}

\* C18: the job map PlanJobs returns has one job per (component,
\* environment) pair that has an instance: every pair has a job of its own
\* component and environment, and no two pairs share a job id.
C18_JobIdsUnique ==
    Planned =>
        /\ Cardinality(DOMAIN jobInstances) = Cardinality(InstancePairs)
        /\ \A p \in InstancePairs :
              \E id \in DOMAIN jobInstances :
                  jobInstances[id].component = p[1] /\ jobInstances[id].environment = p[2]

\* C19: in a document that compiles, every name in an environment's
\* selectors other than the wildcard, and every component named by a
\* dependsOn edge, is the name of a declared component.
C19_ReferencesResolve ==
    pc = "done" =>
        /\ \A e \in DOMAIN file.environments :
              \A i \in DOMAIN file.environments[e].selectors :
                  LET name == file.environments[e].selectors[i]
                  IN name # "*" => Declared(name)
        /\ \A i \in DOMAIN file.components :
              \A j \in DOMAIN file.components[i].dependsOn :
                  Declared(file.components[i].dependsOn[j].component)

\* The policies the document gives the group of an instance, none when the
\* component has no domain or the domain names no group.
GroupPoliciesOf(inst) ==
    IF inst.domain # "" /\ inst.domain \in DOMAIN file.groups
    THEN file.groups[inst.domain].policies ELSE EmptyMap

EnvPoliciesOf(inst) == file.environments[inst.environment].policies

C21_MissingSchemaEitherWay ==
    (loader # None /\ loader.state # "call") =>
        /\ (\E t \in DOMAIN loader.dir : loader.dir[t].job # loader.dir[t].schema)
              => loader.state = "failed" /\ loader.err = "MissingSchemaError"
        /\ loader.state = "returned"
              => \A t \in DOMAIN loader.dir : loader.dir[t].job = loader.dir[t].schema

\* C22: after expansion no instance's inputs hold the key path, and no job
\* of the written plan has it in env or config.
C22_PathNotInInputs ==
    /\ Expanded => \A inst \in AllInstances : "path" \notin DOMAIN inst.inputs
    /\ pc = "done" =>
          \A i \in DOMAIN written.jobs :
              /\ "path" \notin DOMAIN written.jobs[i].env
              /\ "path" \notin DOMAIN written.jobs[i].config

\* C23: normalization is a pure transform: once NormalizeIntent has returned,
\* the raw intent handed to it still equals the document that was loaded (no
\* selector list expanded in place, no dependsOn default written into it).
C23_NormalizeIsPure ==
    NormalizeRan /\ intent # None => intent = file

\* Every dependsOn id of the map is the id of a job of the map.
NoUnknownIds(jobs) == \A id \in DOMAIN jobs : DependsOnSet(jobs[id]) \subseteq DOMAIN jobs

\* C24: DetectCycles returns the cycle error exactly when dependsOn has a
\* directed cycle among the job ids; ids that name no job never cause it.
C24_CycleErrorIffCycle ==
    [][pc = "cycles" => (pc' = "failed" <=> GraphHasCycle(jobInstances))]_vars

\* A job of the map lists the same id twice in its dependsOn.
HasDuplicateEdge(jobs) ==
    \E id \in DOMAIN jobs : \E i, j \in DOMAIN jobs[id].dependsOn :
        i # j /\ jobs[id].dependsOn[i] = jobs[id].dependsOn[j]

\* C25: on a job map of PlanJobs that passed DetectCycles, TopologicalSort
\* emits every job and never returns its count error, duplicates in
\* dependsOn included.
C25_CountCheckUnreachable ==
    [][pc = "toposort" =>
          /\ pc' = "render"
          /\ Len(sorted') = Cardinality(DOMAIN jobInstances)]_vars

C25_Witness ==
    /\ pc = "render"
    /\ HasDuplicateEdge(jobInstances)
    /\ Len(sorted) = Cardinality(DOMAIN jobInstances)

\* The position of id in the sequence ids (0 when absent).
IndexOf(ids, id) ==
    IF \E i \in DOMAIN ids : ids[i] = id
    THEN CHOOSE i \in DOMAIN ids : ids[i] = id
    ELSE 0

\* C26: when TopologicalSort succeeds, sorted holds every job id exactly once
\* and every job stands after all the jobs of its dependsOn.
C26_SortedIsTopological ==
    pc = "render" =>
        /\ Len(sorted) = Cardinality(DOMAIN jobInstances)
        /\ Range(sorted) = DOMAIN jobInstances
        /\ \A id \in DOMAIN jobInstances : \A d \in DependsOnSet(jobInstances[id]) :
               /\ IndexOf(sorted, d) > 0
               /\ IndexOf(sorted, d) < IndexOf(sorted, id)

C26_Witness ==
    /\ pc = "render"
    /\ Len(sorted) = 3
    /\ \E id \in DOMAIN jobInstances : Cardinality(DependsOnSet(jobInstances[id])) = 2
    /\ \E id \in DOMAIN jobInstances :
          jobInstances[id].dependsOn # <<>> /\ sorted[2] = id

\* The run of a step of the job's definition, parsed and executed on its own
\* against the context of the job's instance.
OwnRun(job, step) ==
    ExecuteTemplate(ParseTemplate(step.run),
                    TemplateContext([componentName |-> job.component,
                                     environment |-> job.environment,
                                     type |-> job.composition,
                                     inputs |-> job.config]))

\* C27: the template cache is transparent: every rendered step's run is what
\* parsing and executing that step's own run template gives.
C27_CacheTransparent ==
    PlanRan => \A id \in DOMAIN jobInstances :
        LET job == jobInstances[id]
            steps == registry[job.composition].defaultJob.steps
        IN /\ Len(job.steps) = Len(steps)
           /\ \A i \in DOMAIN steps : job.steps[i].run = OwnRun(job, steps[i])

\* The ids of the plan's jobs.
PlanJobIds(jobs) == {jobs[i].id : i \in DOMAIN jobs}

RECURSIVE AllDependsOn(_, _)
\* The dependsOn entries of every job of the slice with the id.
AllDependsOn(jobs, id) ==
    IF jobs = <<>> THEN <<>>
    ELSE (IF Head(jobs).id = id THEN Head(jobs).dependsOn ELSE <<>>)
            \o AllDependsOn(Tail(jobs), id)

\* The dependsOn relation of the plan's jobs as a job map.
PlanGraph(jobs) == [id \in PlanJobIds(jobs) |-> [id |-> id, dependsOn |-> AllDependsOn(jobs, id)]]

RepeatedId(jobs) == \E i, j \in DOMAIN jobs : i # j /\ jobs[i].id = jobs[j].id

RunStarted == runner # None /\ runner.state # "call" /\ runner.plan # None

NothingRan == runner.visited = <<>> /\ runner.printed = <<>> /\ runner.executed = <<>>

\* C28: Run visits the jobs in dependency order whatever their order in the
\* plan file: no job twice, none before a job of its dependsOn, all of them
\* when Run returns without error; an unknown dependsOn id or a cycle among
\* the jobs is an error returned before anything is run.
C28_RunInDependencyOrder ==
    RunStarted =>
        LET jobs == runner.plan.jobs
            visited == runner.visited
        IN /\ \A i, j \in DOMAIN visited : i # j => visited[i] # visited[j]
           /\ \A i \in DOMAIN visited :
                 /\ visited[i] \in PlanJobIds(jobs)
                 /\ \A d \in Range(AllDependsOn(jobs, visited[i])) :
                       \E j \in 1..(i - 1) : visited[j] = d
           /\ runner.state = "returned" =>
                 /\ Len(visited) = Len(jobs)
                 /\ Range(visited) = PlanJobIds(jobs)
           /\ UnknownDependency(jobs) \/ GraphHasCycle(PlanGraph(jobs)) =>
                 runner.state = "failed" /\ NothingRan
           /\ runner.err \in {"UnknownJobError", "PlanCycleError"} =>
                 UnknownDependency(jobs) \/ GraphHasCycle(PlanGraph(jobs)) \/ RepeatedId(jobs)

C28_Witness ==
    /\ RunStarted
    /\ runner.state = "returned"
    /\ Len(runner.visited) = 3
    /\ runner.plan.jobs[1].dependsOn # <<>>
    /\ runner.visited[3] = runner.plan.jobs[1].id

\* Every step of every job of the plan, as <<id, position>>.
AllSteps(jobs) ==
    UNION {{<<jobs[i].id, k>> : k \in DOMAIN jobs[i].steps} : i \in DOMAIN jobs}

RECURSIVE DependencyClosure(_, _, _)
\* The names reachable from `from` along direct dependencies in at most n steps.
DependencyClosure(components, from, n) ==
    IF n = 0 THEN from
    ELSE DependencyClosure(components,
                           from \cup UNION {Range(GetDependencies(components, c)) : c \in from},
                           n - 1)

\* The least superset of the changed components closed under direct dependsOn.
LeastClosed(r) == DependencyClosure(r.components, r.changedComponents, Cardinality(GraphIds))

\* C30: ResolveComponentSet terminates and returns exactly the changed
\* components with all their transitive dependencies, for cyclic relations
\* and dependencies on undeclared components too.
C30_ResolvesClosure ==
    <>[](resolver.state = "returned" /\ resolver.included = LeastClosed(resolver))

C30_Witness ==
    /\ resolver # None
    /\ resolver.state = "returned"
    /\ resolver.changedComponents = {"a"}
    /\ resolver.included = {"a", "b", "c"}
    /\ DOMAIN resolver.components = {"a", "b"}
    /\ GetDependencies(resolver.components, "a") = <<"b">>
    /\ GetDependencies(resolver.components, "b") = <<"c">>

====
